---- MODULE Spec2Model ----
(***************************************************************************)
(* discodex index server (www/models.py): the lifecycle of a named index   *)
(* between the Disco master (remote jobs) and the index_root directory     *)
(* (local artifacts), with concurrent request handlers.                    *)
(***************************************************************************)
EXTENDS Integers, Sequences, FiniteSets, TLC

\* ---------------------------------------------------------------- bounds
NumProcs == 2        \* request handlers that may run concurrently
MaxOps == 4          \* requests started in one behaviour

Procs == 1..NumProcs

\* ------------------------------------------------------- program constants
NOT_FOUND == "unknown job"
OK == "ready"
ACTIVE == "active"
DEAD == "dead"

disco_prefix == <<"d">>

\* Index names a client may ask for, as character sequences: two carry the
\* prefix of cluster-submitted jobs, one does not.
Names == {<<"d", "1">>, <<"d", "2">>, <<"x", "1">>}
NoName == <<>>

\* The names the master hands out to new jobs, in the order it hands them out.
JobNames == <<(<<"d", "1">>), (<<"d", "2">>)>>

\* Result directories of a finished job, and the chunk list a client uploads.
JobResults == <<[dir |-> "r1", files |-> <<"c1">>], [dir |-> "r2", files |-> <<"c2">>]>>
Uploads == {<<"u1">>}

\* ------------------------------------------------------------ pure helpers
startswith(s, prefix) ==
    /\ Len(s) >= Len(prefix)
    /\ SubSeq(s, 1, Len(prefix)) = prefix

isdisco(name) == startswith(name, disco_prefix)

parse_dir(result) == result.files

\* flatten that yields the result locations last to first.
RECURSIVE flatten_reversed(_)
flatten_reversed(lists) ==
    IF lists = <<>> THEN <<>> ELSE flatten_reversed(Tail(lists)) \o Head(lists)

RECURSIVE flatten(_)
flatten(lists) ==
    IF lists = <<>> THEN <<>> ELSE Head(lists) \o flatten(Tail(lists))

Index(ichunks) == [ichunks |-> ichunks]

\* Index.dumps / Index.loads: the serialized document is the chunk list
\* between an opening and a closing token; a cut document does not load.
dumps(index) == <<"{">> \o index.ichunks \o <<"}">>
loadable(bytes) ==
    /\ Len(bytes) >= 2
    /\ bytes[1] = "{"
    /\ bytes[Len(bytes)] = "}"
loads(bytes) == Index(SubSeq(bytes, 2, Len(bytes) - 1))

\* What is on disk of a buffered write before the handle is closed: the
\* stdio buffer may have flushed any prefix of the bytes handed to it.
Flushed(bytes) == {SubSeq(bytes, 1, k) : k \in 0..Len(bytes)}

\* ------------------------------------------------------------------ state
VARIABLES
    path,      \* index_root: name -> file (exists, owner, bytes)
    jobst,     \* the master: job name -> status
    kind,      \* job name -> who submitted it: "none", "index" or "query"
    proc,      \* request handlers: position and locals
    last,      \* name -> last status a resolution returned since the last delete
    uploaded,  \* name -> a replace of the name was started
    deleted,   \* name -> "removing": a delete removed the artifact, "yes": and has
               \* answered success, "failed": and has answered an error,
               \* "no": none did since the last replace of the name
    nops       \* requests started

vars == <<path, jobst, kind, proc, last, uploaded, deleted, nops>>

\* A file of index_root.  owner is the handler whose open, unflushed
\* NamedTemporaryFile handle refers to this file, 0 once it is closed.
Absent == [exists |-> FALSE, owner |-> 0, bytes |-> <<>>]
File(owner, bytes) == [exists |-> TRUE, owner |-> owner, bytes |-> bytes]

NoResp == [kind |-> "none", body |-> <<>>]
Resp(k) == [kind |-> k, body |-> <<>>]

Idle ==
    [pc |-> "idle", op |-> "none", name |-> NoName, status |-> "none",
     ret |-> "none", late |-> "none", buf |-> <<>>, chunks |-> <<>>,
     job |-> NoName, sub |-> NoName, purged |-> FALSE, resp |-> NoResp]

Init ==
    /\ path = [n \in Names |-> Absent]
    /\ jobst = [n \in Names |-> NOT_FOUND]
    /\ kind = [n \in Names |-> "none"]
    /\ proc = [p \in Procs |-> Idle]
    /\ last = [n \in Names |-> "none"]
    /\ uploaded = [n \in Names |-> FALSE]
    /\ deleted = [n \in Names |-> "no"]
    /\ nops = 0

\* IndexResource.exists
exists(name) == path[name].exists

\* Requests are taken by the lowest free handler.
Free(p) ==
    /\ proc[p].pc = "idle"
    /\ \A q \in Procs : q < p => proc[q].pc # "idle"
    /\ nops < MaxOps

\* ------------------------------------------------------ the directories
\* index_root holds the artifacts, each under its index name; the handle of
\* NamedTemporaryFile(delete=False) is a new file of the directory
\* tempfile.gettempdir() gives, from its creation to the rename.
index_root == "index_root"

\* write that creates its temporary file next to the final path.
gettempdir_indexroot == index_root

gettempdir == "tmp"

TempName(p) == <<"t", ToString(p)>>

TempFiles ==
    {[dir |-> gettempdir, name |-> TempName(p)] :
        p \in {q \in Procs : proc[q].pc \in {"w_write", "w_rename"}}}

\* os.listdir(dir)
listdir(dir) ==
    (IF dir = index_root THEN {n \in Names : exists(n)} ELSE {})
        \cup {f.name : f \in {g \in TempFiles : g.dir = dir}}

\* IndexCollection.names
names == listdir(index_root)

\* The orders in which os.listdir may give the entries.
Orderings(S) ==
    {s \in [1..Cardinality(S) -> S] : \A i, j \in 1..Cardinality(S) : i # j => s[i] # s[j]}

\* What the requests before this one have seen of the name: that a delete
\* of it answered success, or else the last status a resolution returned.
Seen(n) == IF deleted[n] = "yes" THEN "deleted" ELSE last[n]

\* ------------------------------------------------- IndexResource.status
\* The handler that called status goes on with the value it returned.
AfterStatus(p, value) ==
    [proc[p] EXCEPT !.ret = value,
                    !.pc = IF proc[p].op = "read" THEN "r_respond" ELSE "g_delegate"]

\* The record of the statuses returned for a name: the last one that was not
\* NOT_FOUND.  A resolution under way while a delete removed the artifact
\* ("stale") returns what it saw before the delete, and is not recorded.
Record(p, value) ==
    IF proc[p].late = "stale" \/ value = NOT_FOUND
    THEN last
    ELSE [last EXCEPT ![proc[p].name] = value]

\* status that asks the master about any name that has no artifact.
StatusExists_anyname(p) ==
    LET n == proc[p].name IN
    /\ proc[p].pc = "s_exists"
    /\ IF exists(n)
       THEN /\ proc' = [proc EXCEPT ![p] = AfterStatus(p, OK)]
            /\ last' = Record(p, OK)
       ELSE /\ proc' = [proc EXCEPT ![p].pc = "s_results"]
            /\ UNCHANGED last
    /\ UNCHANGED <<path, jobst, kind, uploaded, deleted, nops>>

\* if self.exists: return OK; if not self.isdisco: return NOT_FOUND
StatusExists(p) ==
    LET n == proc[p].name IN
    /\ proc[p].pc = "s_exists"
    /\ IF exists(n)
       THEN /\ proc' = [proc EXCEPT ![p] = AfterStatus(p, OK)]
            /\ last' = Record(p, OK)
       ELSE IF isdisco(n)
       THEN /\ proc' = [proc EXCEPT ![p].pc = "s_results"]
            /\ UNCHANGED last
       ELSE /\ proc' = [proc EXCEPT ![p] = AfterStatus(p, NOT_FOUND)]
            /\ UNCHANGED last
    /\ UNCHANGED <<path, jobst, kind, uploaded, deleted, nops>>

\* status, results = disco_master.results(self.name)
StatusResults(p) ==
    /\ proc[p].pc = "s_results"
    /\ proc' = [proc EXCEPT ![p].status = jobst[proc[p].name], ![p].pc = "s_recheck"]
    /\ UNCHANGED <<path, jobst, kind, last, uploaded, deleted, nops>>

\* Index(ichunks=list(flatten(parse_dir(result) for result in results)))
Materialized(results) ==
    Index(flatten([i \in 1..Len(results) |-> parse_dir(results[i])]))

\* status without the second look at the artifact store.
StatusRecheck_norecheck(p) ==
    LET n == proc[p].name IN
    /\ proc[p].pc = "s_recheck"
    /\ IF proc[p].status = OK
       THEN /\ proc' = [proc EXCEPT ![p].buf = dumps(Materialized(JobResults)),
                                    ![p].pc = "w_tmp"]
            /\ UNCHANGED last
       ELSE /\ proc' = [proc EXCEPT ![p] = AfterStatus(p, proc[p].status)]
            /\ last' = Record(p, proc[p].status)
    /\ UNCHANGED <<path, jobst, kind, uploaded, deleted, nops>>

\* if self.exists: return OK; if status == OK: write ...; return status
StatusRecheck(p) ==
    LET n == proc[p].name IN
    /\ proc[p].pc = "s_recheck"
    /\ IF exists(n)
       THEN /\ proc' = [proc EXCEPT ![p] = AfterStatus(p, OK)]
            /\ last' = Record(p, OK)
       ELSE IF proc[p].status = OK
       THEN /\ proc' = [proc EXCEPT ![p].buf = dumps(Materialized(JobResults)),
                                    ![p].pc = "w_tmp"]
            /\ UNCHANGED last
       ELSE /\ proc' = [proc EXCEPT ![p] = AfterStatus(p, proc[p].status)]
            /\ last' = Record(p, proc[p].status)
    /\ UNCHANGED <<path, jobst, kind, uploaded, deleted, nops>>

\* status that returns after the write without cleaning the job.
StatusClean_noclean(p) ==
    /\ proc[p].pc = "s_clean"
    /\ proc' = [proc EXCEPT ![p] = AfterStatus(p, proc[p].status)]
    /\ last' = Record(p, proc[p].status)
    /\ UNCHANGED <<path, jobst, kind, uploaded, deleted, nops>>

\* disco_master.clean(self.name); return status
StatusClean(p) ==
    LET n == proc[p].name IN
    /\ proc[p].pc = "s_clean"
    /\ jobst' = [jobst EXCEPT ![n] = NOT_FOUND]
    /\ proc' = [proc EXCEPT ![p] = AfterStatus(p, proc[p].status)]
    /\ last' = Record(p, proc[p].status)
    /\ UNCHANGED <<path, kind, uploaded, deleted, nops>>

\* -------------------------------------------------- IndexResource.write
\* handle = NamedTemporaryFile(delete=False): a new empty file in the
\* temporary directory, which no index name refers to.
WriteTemp(p) ==
    /\ proc[p].pc = "w_tmp"
    /\ proc' = [proc EXCEPT ![p].pc = "w_write"]
    /\ UNCHANGED <<path, jobst, kind, last, uploaded, deleted, nops>>

\* write that opens the final path itself and writes the document into it.
WriteBuffered_inplace(p) ==
    /\ proc[p].pc = "w_write"
    /\ \E onDisk \in Flushed(proc[p].buf) :
          path' = [path EXCEPT ![proc[p].name] = File(p, onDisk)]
    /\ proc' = [proc EXCEPT ![p].pc = "w_rename"]
    /\ UNCHANGED <<jobst, kind, last, uploaded, deleted, nops>>

\* handle.write(index.dumps()): the bytes go to the handle's buffer; the
\* file written to is the temporary file, never the final path.
WriteBuffered(p) ==
    /\ proc[p].pc = "w_write"
    /\ proc' = [proc EXCEPT ![p].pc = "w_rename"]
    /\ UNCHANGED <<path, jobst, kind, last, uploaded, deleted, nops>>

\* os.rename(handle.name, self.path): the handle is still open, and the
\* file that becomes visible holds what the buffer has flushed so far.
WriteRename(p) ==
    LET n == proc[p].name IN
    /\ proc[p].pc = "w_rename"
    /\ \E onDisk \in Flushed(proc[p].buf) :
          path' = [path EXCEPT ![n] = File(p, onDisk)]
    /\ deleted' = [deleted EXCEPT ![n] = IF proc[p].op = "update" THEN "no" ELSE @]
    /\ proc' = [proc EXCEPT ![p].pc = "w_close"]
    /\ UNCHANGED <<jobst, kind, last, uploaded, nops>>

\* write returns: the handle goes out of scope and is closed, which flushes
\* the rest of the buffer into the file it refers to (wherever that file is
\* now); status goes on to clean the job, update answers created.
WriteClose(p) ==
    LET n == proc[p].name IN
    /\ proc[p].pc = "w_close"
    /\ path' = [m \in Names |->
                  IF path[m].exists /\ path[m].owner = p
                  THEN File(0, proc[p].buf) ELSE path[m]]
    /\ IF proc[p].op = "update"
       THEN proc' = [proc EXCEPT ![p].pc = "done", ![p].resp = Resp("created")]
       ELSE proc' = [proc EXCEPT ![p].pc = "s_clean"]
    /\ UNCHANGED <<jobst, kind, last, uploaded, deleted, nops>>

\* The write raises before the rename has happened (no space for the
\* temporary file, a rename across file systems, the handler is killed).
WriteFail(p) ==
    /\ proc[p].pc \in {"w_tmp", "w_write", "w_rename"}
    /\ proc' = [proc EXCEPT ![p].pc = "done", ![p].resp = Resp("write_error")]
    /\ UNCHANGED <<path, jobst, kind, last, uploaded, deleted, nops>>

\* --------------------------------------------------- IndexResource.read
StartRead(p, n) ==
    /\ Free(p)
    /\ proc' = [proc EXCEPT ![p] = [Idle EXCEPT !.pc = "s_exists", !.op = "read",
                                                !.name = n,
                                                !.late = Seen(n)]]
    /\ nops' = nops + 1
    /\ UNCHANGED <<path, jobst, kind, last, uploaded, deleted>>

\* if status == OK: HttpResponse(open(self.path)) ... raise Http404
ReadRespond(p) ==
    LET n == proc[p].name
        status == proc[p].ret IN
    /\ proc[p].pc = "r_respond"
    /\ proc' = [proc EXCEPT ![p].pc = "done", ![p].resp =
          IF status = OK
          THEN IF exists(n) THEN [kind |-> "artifact", body |-> path[n].bytes]
                            ELSE Resp("IOError")
          ELSE IF status = ACTIVE THEN Resp("not_ready")
          ELSE IF status = DEAD THEN Resp("failed")
          ELSE Resp("not_found")]
    /\ UNCHANGED <<path, jobst, kind, last, uploaded, deleted, nops>>

\* ------------------------------------------------- IndexResource.update
StartUpdate(p, n, ichunks) ==
    /\ Free(p)
    /\ proc' = [proc EXCEPT ![p] = [Idle EXCEPT !.pc = "w_tmp", !.op = "update",
                                                !.name = n,
                                                !.buf = dumps(loads(dumps(Index(ichunks))))]]
    /\ uploaded' = [uploaded EXCEPT ![n] = TRUE]
    /\ nops' = nops + 1
    /\ UNCHANGED <<path, jobst, kind, last, deleted>>

\* ------------------------------------------------- IndexResource.delete
StartDelete(p, n) ==
    /\ Free(p)
    /\ proc' = [proc EXCEPT ![p] = [Idle EXCEPT !.pc = "d_remove", !.op = "delete",
                                                !.name = n]]
    /\ nops' = nops + 1
    /\ UNCHANGED <<path, jobst, kind, last, uploaded, deleted>>

\* delete that goes on to the purge when there was no artifact to remove.
DeleteRemove_purgeabsent(p) ==
    LET n == proc[p].name IN
    /\ proc[p].pc = "d_remove"
    /\ path' = [path EXCEPT ![n] = Absent]
    /\ proc' = [proc EXCEPT ![p].pc = IF isdisco(n) THEN "d_purge" ELSE "done",
                            ![p].resp = IF isdisco(n) THEN NoResp
                                        ELSE IF exists(n) THEN Resp("no_content")
                                        ELSE Resp("not_found")]
    /\ UNCHANGED <<jobst, kind, last, uploaded, deleted, nops>>

\* os.remove(self.path); ENOENT -> Http404
DeleteRemove(p) ==
    LET n == proc[p].name IN
    /\ proc[p].pc = "d_remove"
    /\ IF ~exists(n)
       THEN /\ proc' = [proc EXCEPT ![p].pc = "done", ![p].resp = Resp("not_found")]
            /\ UNCHANGED <<path, last, deleted>>
       ELSE /\ path' = [path EXCEPT ![n] = Absent]
            /\ deleted' = [deleted EXCEPT ![n] = IF isdisco(n) THEN "removing" ELSE "yes"]
            /\ last' = [last EXCEPT ![n] = "none"]
            /\ proc' = [q \in Procs |->
                  IF q = p
                  THEN IF isdisco(n)
                       THEN [proc[p] EXCEPT !.pc = "d_purge"]
                       ELSE [proc[p] EXCEPT !.pc = "done", !.resp = Resp("no_content")]
                  ELSE IF proc[q].name = n
                       THEN [proc[q] EXCEPT !.late = "stale"]
                       ELSE proc[q]]
    /\ UNCHANGED <<jobst, kind, uploaded, nops>>

\* disco_master.purge(self.name); a DiscoError of the call is not caught.
DeletePurge(p) ==
    LET n == proc[p].name IN
    /\ proc[p].pc = "d_purge"
    /\ \/ /\ jobst' = [jobst EXCEPT ![n] = NOT_FOUND]
          /\ deleted' = [deleted EXCEPT ![n] = IF @ = "removing" THEN "yes" ELSE @]
          /\ proc' = [proc EXCEPT ![p].pc = "done", ![p].resp = Resp("no_content")]
       \/ /\ proc' = [proc EXCEPT ![p].pc = "done", ![p].resp = Resp("purge_error")]
          /\ deleted' = [deleted EXCEPT ![n] = IF @ = "removing" THEN "failed" ELSE @]
          /\ UNCHANGED jobst
    /\ UNCHANGED <<path, kind, last, uploaded, nops>>

\* ------------------------------------------------------------ the master
\* The name the master gives the next job (prefix and time of submission) is
\* new: the first it has not handed out and no client has used.
Unused == {i \in 1..Len(JobNames) : kind[JobNames[i]] = "none" /\ ~uploaded[JobNames[i]]}
NextJobName == JobNames[CHOOSE i \in Unused : \A j \in Unused : i <= j]

\* job.run(disco_master, disco_prefix): the master registers the job and the
\* call returns ("ok"), or the call raises DiscoError, before the master has
\* the job ("refused") or after it has registered it ("lost": the reply does
\* not arrive).
RunOutcomes == {"ok", "refused", "lost"}

Registered(outcome) == outcome \in {"ok", "lost"}

\* The master's state after job.run with the given outcome.
Run(outcome, k) ==
    IF Registered(outcome)
    THEN /\ jobst' = [jobst EXCEPT ![NextJobName] = ACTIVE]
         /\ kind' = [kind EXCEPT ![NextJobName] = k]
    ELSE UNCHANGED <<jobst, kind>>

\* The cluster finishes a job, or the job fails.
JobReady(n) ==
    /\ jobst[n] = ACTIVE
    /\ jobst' = [jobst EXCEPT ![n] = OK]
    /\ UNCHANGED <<path, kind, proc, last, uploaded, deleted, nops>>

JobDies(n) ==
    /\ jobst[n] = ACTIVE
    /\ jobst' = [jobst EXCEPT ![n] = DEAD]
    /\ UNCHANGED <<path, kind, proc, last, uploaded, deleted, nops>>

\* -------------------------------------------------- IndexCollection.read
\* return HttpResponse(Indices(self.names).dumps())
ReadIndices(p) ==
    /\ Free(p)
    /\ \E listed \in Orderings(names) :
          proc' = [proc EXCEPT ![p] = [Idle EXCEPT !.pc = "done", !.op = "list",
                                                   !.resp = [kind |-> "indices",
                                                             body |-> listed]]]
    /\ nops' = nops + 1
    /\ UNCHANGED <<path, jobst, kind, last, uploaded, deleted>>

\* ------------------------------------------------ IndexCollection.create
StartCreate(p) ==
    /\ Free(p)
    /\ proc' = [proc EXCEPT ![p] = [Idle EXCEPT !.pc = "c_run", !.op = "create"]]
    /\ nops' = nops + 1
    /\ UNCHANGED <<path, jobst, kind, last, uploaded, deleted>>

\* job.run(...); except DiscoError: HttpResponseServerError;
\* return HttpResponseAccepted(job.name)
CreateRun(p) ==
    /\ proc[p].pc = "c_run"
    /\ \E outcome \in RunOutcomes :
          /\ Registered(outcome) => Unused # {}
          /\ Run(outcome, "index")
          /\ proc' = [proc EXCEPT
                ![p].pc = "done",
                ![p].sub = IF Registered(outcome) THEN NextJobName ELSE NoName,
                ![p].job = IF outcome = "ok" THEN NextJobName ELSE NoName,
                ![p].resp = IF outcome = "ok" THEN Resp("accepted")
                                               ELSE Resp("submit_error")]
    /\ UNCHANGED <<path, last, uploaded, deleted, nops>>

\* ---------------------- IndexResource.delegate and DiscoDBResource.read
StartKeys(p, n) ==
    /\ Free(p)
    /\ proc' = [proc EXCEPT ![p] = [Idle EXCEPT !.pc = "s_exists", !.op = "keys",
                                                !.name = n,
                                                !.late = Seen(n)]]
    /\ nops' = nops + 1
    /\ UNCHANGED <<path, jobst, kind, last, uploaded, deleted>>

\* if self.status == NOT_FOUND: raise Http404
Delegate(p) ==
    /\ proc[p].pc = "g_delegate"
    /\ IF proc[p].ret = NOT_FOUND
       THEN proc' = [proc EXCEPT ![p].pc = "done", ![p].resp = Resp("not_found")]
       ELSE proc' = [proc EXCEPT ![p].pc = "q_job"]
    /\ UNCHANGED <<path, jobst, kind, last, uploaded, deleted, nops>>

\* job that takes a missing artifact for an index without chunks.
QueryJob_absentempty(p) ==
    LET n == proc[p].name IN
    /\ proc[p].pc = "q_job"
    /\ proc' = IF exists(n) /\ ~loadable(path[n].bytes)
               THEN [proc EXCEPT ![p].pc = "done", ![p].resp = Resp("ValueError")]
               ELSE [proc EXCEPT ![p].pc = "q_run",
                                 ![p].chunks = IF exists(n)
                                               THEN loads(path[n].bytes).ichunks
                                               ELSE <<>>]
    /\ UNCHANGED <<path, jobst, kind, last, uploaded, deleted, nops>>

\* job = self.job: DiscoDBIterator(self.index.ichunks, ...), where ichunks is
\* Index.loads(open(self.path).read())['ichunks']; neither a missing file
\* nor a document that does not load is a DiscoError.
QueryJob(p) ==
    LET n == proc[p].name IN
    /\ proc[p].pc = "q_job"
    /\ proc' = IF ~exists(n)
               THEN [proc EXCEPT ![p].pc = "done", ![p].resp = Resp("IOError")]
               ELSE IF ~loadable(path[n].bytes)
               THEN [proc EXCEPT ![p].pc = "done", ![p].resp = Resp("ValueError")]
               ELSE [proc EXCEPT ![p].pc = "q_run",
                                 ![p].chunks = loads(path[n].bytes).ichunks]
    /\ UNCHANGED <<path, jobst, kind, last, uploaded, deleted, nops>>

\* job.run(disco_master, disco_prefix); except DiscoError: return 500
QueryRun(p) ==
    /\ proc[p].pc = "q_run"
    /\ \E outcome \in RunOutcomes :
          /\ Registered(outcome) => Unused # {}
          /\ Run(outcome, "query")
          /\ proc' = [proc EXCEPT
                ![p].pc = IF outcome = "ok" THEN "q_results" ELSE "done",
                ![p].sub = IF Registered(outcome) THEN NextJobName ELSE NoName,
                ![p].job = IF outcome = "ok" THEN NextJobName ELSE NoName,
                ![p].resp = IF outcome = "ok" THEN NoResp ELSE Resp("submit_error")]
    /\ UNCHANGED <<path, last, uploaded, deleted, nops>>

\* results = self.result_type(v for k, v in job.results).dumps(): waits for
\* the job to end; DiscoError when it did not end ready.
QueryResults(p) ==
    /\ proc[p].pc = "q_results"
    /\ jobst[proc[p].job] # ACTIVE
    /\ proc' = [proc EXCEPT ![p].pc = "q_purge",
                            ![p].resp = IF jobst[proc[p].job] = OK
                                        THEN Resp("results") ELSE Resp("job_failed")]
    /\ UNCHANGED <<path, jobst, kind, last, uploaded, deleted, nops>>

\* finally: disco_master.purge(job.name); a DiscoError raised in the finally
\* clause replaces the response that was about to be returned.
QueryPurge(p) ==
    /\ proc[p].pc = "q_purge"
    /\ \/ /\ jobst' = [jobst EXCEPT ![proc[p].job] = NOT_FOUND]
          /\ proc' = [proc EXCEPT ![p].pc = "done", ![p].purged = TRUE]
       \/ /\ proc' = [proc EXCEPT ![p].pc = "done", ![p].purged = TRUE,
                                  ![p].resp = Resp("purge_error")]
          /\ UNCHANGED jobst
    /\ UNCHANGED <<path, kind, last, uploaded, deleted, nops>>

\* The response is sent and the handler is free for the next request.
Done(p) ==
    /\ proc[p].pc = "done"
    /\ proc' = [proc EXCEPT ![p] = Idle]
    /\ UNCHANGED <<path, jobst, kind, last, uploaded, deleted, nops>>

\* ------------------------------------------------------- specification
Next ==
    \/ \E p \in Procs, n \in Names : StartRead(p, n)
    \/ \E p \in Procs, n \in Names, u \in Uploads : StartUpdate(p, n, u)
    \/ \E p \in Procs, n \in Names : StartDelete(p, n)
    \/ \E p \in Procs, n \in Names : StartKeys(p, n)
    \/ \E p \in Procs : StartCreate(p)
    \/ \E p \in Procs : ReadIndices(p)
    \/ \E p \in Procs : StatusExists(p)
    \/ \E p \in Procs : StatusResults(p)
    \/ \E p \in Procs : StatusRecheck(p)
    \/ \E p \in Procs : StatusClean(p)
    \/ \E p \in Procs : WriteTemp(p)
    \/ \E p \in Procs : WriteBuffered(p)
    \/ \E p \in Procs : WriteRename(p)
    \/ \E p \in Procs : WriteClose(p)
    \/ \E p \in Procs : WriteFail(p)
    \/ \E p \in Procs : ReadRespond(p)
    \/ \E p \in Procs : DeleteRemove(p)
    \/ \E p \in Procs : DeletePurge(p)
    \/ \E p \in Procs : CreateRun(p)
    \/ \E p \in Procs : Delegate(p)
    \/ \E p \in Procs : QueryJob(p)
    \/ \E p \in Procs : QueryRun(p)
    \/ \E p \in Procs : QueryResults(p)
    \/ \E p \in Procs : QueryPurge(p)
    \/ \E p \in Procs : Done(p)
    \/ \E n \in Names : JobReady(n)
    \/ \E n \in Names : JobDies(n)

Spec == Init /\ [][Next]_vars

\* The names that match the convention of cluster-submitted indices.
DiscoNames == {n \in Names : isdisco(n)}

\* Submissions and gets of cluster-submitted names: the status resolutions
\* and materializations of indexing jobs alone.
Resolve ==
    \/ \E p \in Procs, n \in DiscoNames : StartRead(p, n)
    \/ \E p \in Procs : StartCreate(p)
    \/ \E p \in Procs : StatusExists(p)
    \/ \E p \in Procs : StatusResults(p)
    \/ \E p \in Procs : StatusRecheck(p)
    \/ \E p \in Procs : StatusClean(p)
    \/ \E p \in Procs : WriteTemp(p)
    \/ \E p \in Procs : WriteBuffered(p)
    \/ \E p \in Procs : WriteRename(p)
    \/ \E p \in Procs : WriteClose(p)
    \/ \E p \in Procs : WriteFail(p)
    \/ \E p \in Procs : ReadRespond(p)
    \/ \E p \in Procs : CreateRun(p)
    \/ \E p \in Procs : Done(p)
    \/ \E n \in Names : JobReady(n)
    \/ \E n \in Names : JobDies(n)

SpecResolve == Init /\ [][Resolve]_vars

\* Every request handler runs on to its response: the next step of a handler
\* that is under way is eventually taken (a failing write is a step the
\* environment may take instead, and is not required to happen).
Progress(p) ==
    \/ StatusExists(p)
    \/ StatusResults(p)
    \/ StatusRecheck(p)
    \/ StatusClean(p)
    \/ WriteTemp(p)
    \/ WriteBuffered(p)
    \/ WriteRename(p)
    \/ WriteClose(p)
    \/ ReadRespond(p)
    \/ CreateRun(p)
    \/ Done(p)

SpecResolveFair == SpecResolve /\ \A p \in Procs : WF_vars(Progress(p))

\* Submissions and gets of any name: status resolutions of names inside and
\* outside the convention of cluster-submitted indices.
Status ==
    \/ Resolve
    \/ \E p \in Procs, n \in Names : StartRead(p, n)

SpecStatus == Init /\ [][Status]_vars

\* The same with deletes of those names.
Lifecycle ==
    \/ Resolve
    \/ \E p \in Procs, n \in DiscoNames : StartDelete(p, n)
    \/ \E p \in Procs : DeleteRemove(p)
    \/ \E p \in Procs : DeletePurge(p)

SpecLifecycle == Init /\ [][Lifecycle]_vars

\* Replaces and deletes of any name: the writers of the artifact store.
WriteOnly ==
    \/ \E p \in Procs, n \in Names, u \in Uploads : StartUpdate(p, n, u)
    \/ \E p \in Procs, n \in Names : StartDelete(p, n)
    \/ \E p \in Procs : WriteTemp(p)
    \/ \E p \in Procs : WriteBuffered(p)
    \/ \E p \in Procs : WriteRename(p)
    \/ \E p \in Procs : WriteClose(p)
    \/ \E p \in Procs : WriteFail(p)
    \/ \E p \in Procs : DeleteRemove(p)
    \/ \E p \in Procs : DeletePurge(p)
    \/ \E p \in Procs : Done(p)

SpecWrite == Init /\ [][WriteOnly]_vars

\* Submissions, replaces and keys/values/query requests of any name.
Query ==
    \/ \E p \in Procs, n \in Names, u \in Uploads : StartUpdate(p, n, u)
    \/ \E p \in Procs, n \in Names : StartKeys(p, n)
    \/ \E p \in Procs : StartCreate(p)
    \/ \E p \in Procs : StatusExists(p)
    \/ \E p \in Procs : StatusResults(p)
    \/ \E p \in Procs : StatusRecheck(p)
    \/ \E p \in Procs : StatusClean(p)
    \/ \E p \in Procs : WriteTemp(p)
    \/ \E p \in Procs : WriteBuffered(p)
    \/ \E p \in Procs : WriteRename(p)
    \/ \E p \in Procs : WriteClose(p)
    \/ \E p \in Procs : WriteFail(p)
    \/ \E p \in Procs : CreateRun(p)
    \/ \E p \in Procs : Delegate(p)
    \/ \E p \in Procs : QueryJob(p)
    \/ \E p \in Procs : QueryRun(p)
    \/ \E p \in Procs : QueryResults(p)
    \/ \E p \in Procs : QueryPurge(p)
    \/ \E p \in Procs : Done(p)
    \/ \E n \in Names : JobReady(n)
    \/ \E n \in Names : JobDies(n)

SpecQuery == Init /\ [][Query]_vars

\* Replaces, submissions and listings: the artifact store with writes under
\* way and with jobs that are on the master, active or dead, and not
\* materialized.
Listing ==
    \/ \E p \in Procs, n \in Names, u \in Uploads : StartUpdate(p, n, u)
    \/ \E p \in Procs : StartCreate(p)
    \/ \E p \in Procs : ReadIndices(p)
    \/ \E p \in Procs : WriteTemp(p)
    \/ \E p \in Procs : WriteBuffered(p)
    \/ \E p \in Procs : WriteRename(p)
    \/ \E p \in Procs : WriteClose(p)
    \/ \E p \in Procs : WriteFail(p)
    \/ \E p \in Procs : CreateRun(p)
    \/ \E p \in Procs : Done(p)
    \/ \E n \in Names : JobDies(n)

SpecListing == Init /\ [][Listing]_vars

\* ================================================================ claims
Resolving(p) ==
    proc[p].pc \in {"s_exists", "s_results", "s_recheck",
                    "w_tmp", "w_write", "w_rename", "w_close", "s_clean"}

\* The handler's call of status has returned (with proc[p].ret).
Resolved(p) == proc[p].ret # "none"

\* The chunk list of the finished job: its result locations in order.
JobChunks == <<JobResults[1].files[1], JobResults[2].files[1]>>

\* The complete documents a write of the program can have handed to a file.
Documents == {<<"{">> \o JobChunks \o <<"}">>} \cup {<<"{">> \o u \o <<"}">> : u \in Uploads}

\* C1: every status resolution of an indexing job's name that got ready from
\* the master returns ready, and once no resolution of the name is under
\* way, after one has returned ready, the file at the final path is closed
\* and holds exactly the job's result locations in order (names that were
\* never replaced and of which no delete removed the artifact).
C1_ConcurrentMaterialize ==
    /\ \A p \in Procs :
          (Resolved(p) /\ proc[p].status = OK) => proc[p].ret = OK
    /\ \A n \in Names :
          ( /\ kind[n] = "index"
            /\ ~uploaded[n]
            /\ deleted[n] = "no"
            /\ last[n] = OK
            /\ \A p \in Procs : proc[p].name = n => ~Resolving(p) )
          => path[n] = File(0, <<"{">> \o JobChunks \o <<"}">>)

\* Two resolutions of one name both got ready from the master, both wrote
\* the artifact and both have returned.
C1_Witness ==
    \E p, q \in Procs :
        /\ p # q
        /\ proc[p].name \in Names
        /\ proc[p].name = proc[q].name
        /\ kind[proc[p].name] = "index"
        /\ ~uploaded[proc[p].name]
        /\ deleted[proc[p].name] = "no"
        /\ \A r \in {p, q} :
              /\ Resolved(r)
              /\ proc[r].status = OK
              /\ proc[r].buf # <<>>
              /\ proc[r].ret = OK

\* C2: a file at a final path is always a complete serialized index.
C2_NeverPartial ==
    \A n \in Names : exists(n) => path[n].bytes \in Documents

\* C3: once a delete of a name has answered success (and no replace of that
\* name followed), the artifact is absent and the resolutions
\* started since return NOT_FOUND.
C3_DeletedStaysUnknown ==
    \A n \in Names :
        deleted[n] = "yes" =>
            /\ ~exists(n)
            /\ \A p \in Procs :
                  (proc[p].name = n /\ proc[p].late = "deleted" /\ Resolved(p))
                  => proc[p].ret = NOT_FOUND

C5_EphemeralPurged ==
    \A p \in Procs :
        (proc[p].pc = "done" /\ proc[p].op = "keys" /\ proc[p].sub # NoName)
        => proc[p].purged

\* C6: a step of write before the rename, the failure of the write
\* included, leaves every final path as it is.
C6_BeforeRenameUntouched ==
    [][\A p \in Procs :
          ( /\ proc[p].pc \in {"w_tmp", "w_write", "w_rename"}
            /\ proc'[p].pc \in {"w_write", "w_rename", "done"}
            /\ proc'[p].pc # proc[p].pc )
          => path' = path]_vars

\* A replace has failed before its rename and the artifact that an earlier
\* replace persisted is at the final path, complete.
C6_Witness ==
    \E p \in Procs :
        /\ proc[p].pc = "done"
        /\ proc[p].op = "update"
        /\ proc[p].resp.kind = "write_error"
        /\ exists(proc[p].name)
        /\ path[proc[p].name].owner = 0
        /\ path[proc[p].name].bytes \in Documents

\* C7: a get that did not fail in a write answers the artifact exactly when
\* status returned ready, else not-ready for active, failed for dead and
\* not-found for unknown.
C7_ReadOutcome ==
    \A p \in Procs :
        (proc[p].pc = "done" /\ proc[p].op = "read" /\ proc[p].resp.kind # "write_error")
        => proc[p].resp.kind = ( IF proc[p].ret = OK THEN "artifact"
                                 ELSE IF proc[p].ret = ACTIVE THEN "not_ready"
                                 ELSE IF proc[p].ret = DEAD THEN "failed"
                                 ELSE "not_found" )

\* C8: no request answers with the failure of a purge.
C8_PurgeFailureHidden ==
    \A p \in Procs : proc[p].pc = "done" => proc[p].resp.kind # "purge_error"

\* C9: for the name of an indexing job, a resolution started after ready was
\* returned returns ready and one started after dead was returned returns
\* dead, whatever requests ran in between, unless a delete removed the
\* artifact in between.
C9_TerminalStays ==
    \A p \in Procs :
        (Resolved(p) /\ kind[proc[p].name] = "index")
        => /\ proc[p].late = OK => proc[p].ret = OK
           /\ proc[p].late = DEAD => proc[p].ret = DEAD

\* C10: the content a read of a present artifact returns does not change in
\* a step that is neither a step of a replace of the name nor a delete.
C10_SameContent ==
    [][\A n \in Names :
          ( /\ exists(n)
            /\ path'[n].exists
            /\ ~\E p \in Procs : /\ proc[p].op = "update"
                                 /\ proc[p].name = n
                                 /\ proc'[p] # proc[p] )
          => path'[n].bytes = path[n].bytes]_vars

\* C11: no request uses the job another request submitted for its own
\* ephemeral use: the master never answers a status resolution with the
\* state of a keys/values/query job, and no resolution materializes or
\* cleans such a job, also when the name asked for is the job's name.
C11_JobsNotShared ==
    \A p \in Procs :
        (proc[p].op \in {"read", "keys"} /\ proc[p].name \in Names
            /\ kind[proc[p].name] = "query")
        => /\ proc[p].status \notin {ACTIVE, OK, DEAD}
           /\ proc[p].pc \notin {"w_tmp", "w_write", "w_rename", "w_close", "s_clean"}

\* C12: a name that was never the name of an indexing job and never
\* replaced has no artifact, and every status resolution of it returns
\* NOT_FOUND.
C12_NeverSubmittedUnknown ==
    \A n \in Names :
        (kind[n] # "index" /\ ~uploaded[n])
        => /\ ~exists(n)
           /\ \A p \in Procs :
                 (proc[p].name = n /\ Resolved(p)) => proc[p].ret = NOT_FOUND

\* C13: a delete of a name that has no artifact answers not-found in the
\* step that finds it absent: it never goes on to the purge, and the step
\* changes neither the artifact store nor the master's job states.
C13_DeleteAbsentNoEffect ==
    [][\A p \in Procs :
          ( /\ proc[p].pc = "d_remove"
            /\ ~exists(proc[p].name)
            /\ proc'[p].pc # "d_remove" )
          => /\ proc'[p].pc = "done"
             /\ proc'[p].resp.kind = "not_found"
             /\ path' = path
             /\ jobst' = jobst]_vars

\* A delete of the name of a finished indexing job that was not materialized
\* has answered not-found, and the job is still ready on the master.
C13_Witness ==
    \E p \in Procs :
        /\ proc[p].pc = "done"
        /\ proc[p].op = "delete"
        /\ proc[p].resp.kind = "not_found"
        /\ ~exists(proc[p].name)
        /\ kind[proc[p].name] = "index"
        /\ jobst[proc[p].name] = OK

\* C14: a create that answered a submission error has left no job on the
\* master under any name (no name resolves to active, ready or dead because
\* of it).
C14_FailedCreateNoState ==
    \A p \in Procs :
        ( /\ proc[p].pc = "done"
          /\ proc[p].op = "create"
          /\ proc[p].resp.kind = "submit_error" )
        => proc[p].sub = NoName

\* The documents a replace persists.
UploadDocuments == {<<"{">> \o u \o <<"}">> : u \in Uploads}

\* C15: a replace returns created with the uploaded chunk list persisted at
\* the final path, and no step of a status resolution changes the artifact
\* that a replace which has returned left there.
C15_UploadStays ==
    [][\A p \in Procs :
          /\ ( /\ proc[p].op = "update"
               /\ proc[p].pc = "w_close"
               /\ proc'[p].pc = "done" )
             => /\ proc'[p].resp.kind = "created"
                /\ path[proc[p].name].owner = p
                   => path'[proc[p].name] = File(0, proc[p].buf)
          /\ ( /\ proc[p].op \in {"read", "keys"}
               /\ proc'[p].pc # proc[p].pc
               /\ exists(proc[p].name)
               /\ path[proc[p].name].owner = 0
               /\ path[proc[p].name].bytes \in UploadDocuments )
             => path'[proc[p].name] = path[proc[p].name]]_vars

C17_StatusFrame ==
    [][\A p \in Procs :
          ( /\ proc[p].op \in {"read", "keys"}
            /\ Resolving(p)
            /\ proc'[p].pc # proc[p].pc )
          => /\ (path' # path \/ jobst' # jobst)
                => /\ proc[p].pc \in {"w_rename", "w_close", "s_clean"}
                   /\ proc[p].status = OK
                   /\ isdisco(proc[p].name)
             /\ proc'[p].pc = "w_tmp"
                => /\ proc[p].pc = "s_recheck"
                   /\ proc[p].status = OK
                   /\ ~exists(proc[p].name)
             /\ proc'[p].pc = "s_results"
                => /\ proc[p].pc = "s_exists"
                   /\ ~exists(proc[p].name)
                   /\ isdisco(proc[p].name)]_vars

\* A resolution got ready from the master, found the artifact at its
\* re-check and returned ready without writing.
C17_Witness ==
    \E p \in Procs :
        /\ proc[p].op = "read"
        /\ Resolved(p)
        /\ proc[p].status = OK
        /\ proc[p].buf = <<>>
        /\ proc[p].ret = OK
        /\ exists(proc[p].name)

\* C18: the results of a completed indexing job are never lost: while no
\* delete has removed the artifact (and no replace was made), either the
\* master still has the job or the artifact holding its result locations is
\* at the final path.
C18_ResultsKept ==
    \A n \in Names :
        ( /\ kind[n] = "index"
          /\ ~uploaded[n]
          /\ deleted[n] = "no"
          /\ jobst[n] = NOT_FOUND )
        => /\ exists(n)
           /\ path[n].bytes = <<"{">> \o JobChunks \o <<"}">>

\* C19: a keys/values/query request whose status resolution returned
\* NOT_FOUND answers not-found; it goes on to submit a job only from a read
\* of a present artifact, with exactly the chunk list of the document in
\* it; when the artifact is absent at that read (the name is active, dead
\* or deleted) it ends there: no job is submitted and nothing is purged.
C19_QueryPresentOnly ==
    [][\A p \in Procs :
          (proc[p].op = "keys" /\ proc'[p].pc # proc[p].pc)
          => /\ (proc[p].pc = "g_delegate" /\ proc[p].ret = NOT_FOUND)
                => /\ proc'[p].pc = "done"
                   /\ proc'[p].resp.kind = "not_found"
             /\ proc'[p].pc = "q_run"
                => /\ proc[p].pc = "q_job"
                   /\ exists(proc[p].name)
                   /\ path[proc[p].name].bytes = <<"{">> \o proc'[p].chunks \o <<"}">>
             /\ (proc[p].pc = "q_job" /\ ~exists(proc[p].name))
                => /\ proc'[p].pc = "done"
                   /\ proc'[p].sub = NoName
                   /\ ~proc'[p].purged
                   /\ jobst' = jobst
                   /\ kind' = kind
             /\ (proc[p].sub = NoName /\ proc'[p].sub # NoName)
                => proc[p].pc = "q_run"
             /\ (~proc[p].purged /\ proc'[p].purged)
                => proc[p].pc = "q_purge"]_vars

\* A keys request of an active or dead name has ended at the read of the
\* missing artifact without a job, while the job of another keys request
\* reads the chunk list of a present artifact.
C19_Witness ==
    \E p, q \in Procs :
        /\ proc[p].pc = "done"
        /\ proc[p].op = "keys"
        /\ proc[p].ret \in {ACTIVE, DEAD}
        /\ proc[p].resp.kind = "IOError"
        /\ proc[p].sub = NoName
        /\ proc[q].op = "keys"
        /\ proc[q].pc = "q_results"
        /\ exists(proc[q].name)
        /\ path[proc[q].name].bytes = <<"{">> \o proc[q].chunks \o <<"}">>

\* C20: the listing holds exactly the names with a file at their final
\* path, the names whose status is ready at the first look: no name of the
\* temporary file of a write under way, and no name of a job that is on the
\* master and not materialized.
C20_ListingIsArtifacts ==
    [][\A p \in Procs :
          (proc[p].pc = "idle" /\ proc'[p].op = "list")
          => LET listed == {proc'[p].resp.body[i] : i \in 1..Len(proc'[p].resp.body)} IN
             /\ Len(proc'[p].resp.body) = Cardinality(listed)
             /\ listed = {n \in Names : exists(n)}
             /\ \A q \in Procs : TempName(q) \notin listed
             /\ \A n \in Names :
                   (jobst[n] \in {ACTIVE, DEAD} /\ ~exists(n)) => n \notin listed]_vars

\* A listing was answered with the one artifact while the temporary file of
\* a write exists and a submitted job is active and not materialized.
C20_Witness ==
    \E p, q \in Procs :
        /\ proc[p].pc = "done"
        /\ proc[p].op = "list"
        /\ proc[p].resp.body # <<>>
        /\ proc[q].pc \in {"w_write", "w_rename"}
        /\ \E n \in Names : jobst[n] = ACTIVE /\ ~exists(n)

====
